---- MODULE Spec2Model ----
(***************************************************************************)
(* Model of code/chapter6/chapter6_3_1.ipynb: the notebook that validates  *)
(* a target-risk and a target-risk-plus-tracking-error cone program        *)
(* against the target-return mean-variance solution.                       *)
(*                                                                         *)
(* The state is the kernel namespace (the notebook's global names); one    *)
(* action per code cell.  A cell may be executed whenever the names it     *)
(* reads are bound, in document order or again later.                      *)
(*                                                                         *)
(* Numbers are fixed point.  A weight is an integer number of 1/Unit(I),   *)
(* where Unit(I) is the least unit in which both 0.25 and 1/I are whole.   *)
(* An expected return is an integer number of percent.  A covariance is    *)
(* an integer matrix F^T F; volatilities and cone radii are in the unit of *)
(* |F x| for x in weight units.  np.sqrt rounds to the nearest             *)
(* representable number (RSqrt).  A matrix is a sequence of rows.          *)
(***************************************************************************)
EXTENDS Integers, Sequences, FiniteSets, TLC

(* ------------------------------ bounds -------------------------------- *)

\* largest diagonal entry of the covariance factors the data source supplies
MaxVol == 2
\* largest off-diagonal entry of those factors
MaxCorr == 1
\* largest expected return (percent) the data source supplies
MaxMean == 8
\* how many times a cell that already ran may be executed again
MaxReruns == 1
\* the scaling constants 1..MaxScalar are compared with the notebook's
MaxScalar == 2

\* numbers of assets the data source supplies
AssetCounts == {4, 5}

(* --------------------------- program constants ------------------------ *)

\* return_target = 0.05, in percent
ReturnTarget == 5
\* the 0.25 of the upper bounds is 1/QuarterDen
QuarterDen == 4
\* scalar = 100
ScalarValue == 100

(* ------------------------------ numbers ------------------------------- *)

Unit(n) == IF n % 4 = 0 THEN n ELSE IF n % 2 = 0 THEN 2 * n ELSE 4 * n

\* the weight num/den in units of 1/Unit(n)
Wt(num, den, n) == (num * Unit(n)) \div den

Abs(v) == IF v < 0 THEN -v ELSE v

\* floor of the square root
ISqrt(v) == CHOOSE r \in 0..v : r * r <= v /\ v < (r + 1) * (r + 1)

\* np.sqrt: the representable number nearest to the square root
RSqrt(v) ==
  CHOOSE r \in 0..v : 4 * v < (2 * r + 1) * (2 * r + 1)
                      /\ (r = 0 \/ (2 * r - 1) * (2 * r - 1) < 4 * v)

(* ------------------------ vectors and matrices ------------------------ *)

\* the sequence with the entries of f, written out
Tup(f) == SubSeq(f, 1, Len(f))

Zeros(n) == Tup([k \in 1..n |-> 0])

Ones(n) == Tup([k \in 1..n |-> 1])

ZerosMat(r, c) == Tup([i \in 1..r |-> Zeros(c)])

Eye(n) == Tup([i \in 1..n |-> Tup([j \in 1..n |-> IF i = j THEN 1 ELSE 0])])

Rows(M) == Len(M)

Cols(M) == IF Len(M) = 0 THEN 0 ELSE Len(M[1])

NegVec(v) == Tup([k \in 1..Len(v) |-> -v[k]])

NegMat(M) == Tup([i \in 1..Len(M) |-> NegVec(M[i])])

ScaleVec(v, s) == Tup([k \in 1..Len(v) |-> v[k] * s])

ScaleMat(M, s) == Tup([i \in 1..Len(M) |-> ScaleVec(M[i], s)])

SubVec(u, v) == Tup([k \in 1..Len(u) |-> u[k] - v[k]])

\* np.hstack of two vectors
HStackVec(u, v) == u \o v

\* np.hstack of two matrices with the same number of rows
HStack(M, N) == Tup([i \in 1..Len(M) |-> M[i] \o N[i]])

\* np.vstack
VStack(M, N) == M \o N

Transpose(M) == Tup([j \in 1..Cols(M) |-> Tup([i \in 1..Len(M) |-> M[i][j]])])

RECURSIVE DotTo(_, _, _)
DotTo(u, v, k) == IF k = 0 THEN 0 ELSE DotTo(u, v, k - 1) + u[k] * v[k]

Dot(u, v) == DotTo(u, v, Len(u))

MatVec(M, x) == Tup([i \in 1..Len(M) |-> Dot(M[i], x)])

MatMul(M, N) ==
  LET Nt == Transpose(N)
  IN Tup([i \in 1..Len(M) |-> Tup([j \in 1..Len(Nt) |-> Dot(M[i], Nt[j])])])

\* x.T @ M @ x
Quad(x, M) == Dot(x, MatVec(M, x))

RECURSIVE MaxAbsTo(_, _)
MaxAbsTo(v, k) ==
  IF k = 0 THEN 0
  ELSE LET m == MaxAbsTo(v, k - 1) IN IF Abs(v[k]) > m THEN Abs(v[k]) ELSE m

\* np.max(np.abs(v))
MaxAbs(v) == MaxAbsTo(v, Len(v))

\* x[lo:hi] of a vector, lo and hi counted from 0 as in the source
Slice(x, lo, hi) == Tup([k \in 1..(hi - lo) |-> x[lo + k]])

\* M[r0:, c0:c0+Cols(B)] = B, r0 and c0 counted from 0 as in the source
SetBlock(M, r0, c0, B) ==
  Tup([i \in 1..Len(M) |->
     Tup([j \in 1..Len(M[i]) |->
        IF i > r0 /\ i <= r0 + Len(B) /\ j > c0 /\ j <= c0 + Cols(B)
        THEN B[i - r0][j - c0] ELSE M[i][j]])])

\* v[0] = a
SetFirst(v, a) == [v EXCEPT ![1] = a]

IsUpperTriangular(M) ==
  \A i \in 1..Len(M) : \A j \in 1..Len(M[i]) : j < i => M[i][j] = 0

(* ------------------------------ cholesky ------------------------------ *)

\* rows 1..i of the upper-triangular factor U with U^T U = a
RECURSIVE CholRows(_, _)
CholRows(a, i) ==
  IF i = 0 THEN << >>
  ELSE LET prev == CholRows(a, i - 1)
           col(j) == Tup([k \in 1..(i - 1) |-> prev[k][j]])
           d == ISqrt(a[i][i] - Dot(col(i), col(i)))
           row == Tup([j \in 1..Len(a) |->
                     IF j < i THEN 0
                     ELSE IF j = i THEN d
                     ELSE (a[i][j] - Dot(col(i), col(j))) \div d])
       IN Append(prev, row)

\* scipy.linalg.cholesky(a), lower=False
cholesky(a) == CholRows(a, Len(a))

(* ------------------------- the data source ---------------------------- *)

\* diagonal of a covariance factor: volatilities in 1..MaxVol
VolProfile(n, a) == Tup([i \in 1..n |-> 1 + ((i * a) % MaxVol)])

\* an upper-triangular factor: the volatilities, and one coupling of assets 1 and 2
Factor(n, a, cpl) ==
  Tup([i \in 1..n |-> Tup([j \in 1..n |->
     IF i = j THEN VolProfile(n, a)[i] ELSE IF i = 1 /\ j = 2 THEN cpl ELSE 0])])

\* the positive-definite covariances ft.load_parameters may supply for n assets
Covariances(n) ==
  {MatMul(Transpose(Factor(n, a, cpl)), Factor(n, a, cpl)) :
     a \in 0..(MaxVol - 1), cpl \in 0..MaxCorr}

\* the expected returns ft.load_parameters may supply for n assets, in percent
MeanVectors(n) ==
  {Tup([i \in 1..n |-> 1 + ((i * m) % MaxMean)]) : m \in 0..(MaxMean - 1)}

(* ------------------------ the external solvers ------------------------ *)

\* what stands for Python's None, and for np.array(None)
None == << >>

\* the weights the solvers try for one asset: none, the equal weight 1/n, one
\* unit less than it, and the upper bound 0.25
WeightLevels(n) == {0, Wt(1, n, n) - 1, Wt(1, n, n), Wt(1, QuarterDen, n)}

\* the weight vectors the solvers search
WeightGrid(n) == {Tup(w) : w \in [1..n -> WeightLevels(n)]}

\* the k-th candidate t for a candidate w: w - 1/n, or w itself
TrackingCandidate(w, k) ==
  IF k = 1 THEN Tup([i \in 1..Len(w) |-> w[i] - Wt(1, Len(w), Len(w))]) ELSE w

\* the [w; t] vectors the solvers search
PairGrid(n) == {w \o TrackingCandidate(w, k) : w \in WeightGrid(n), k \in 1..2}

\* s = hk - Gk x lies in the second-order cone: s[0] >= |s[1:]|
InCone(Gk, hk, x) ==
  LET s == Tup([i \in 1..Len(hk) |-> hk[i] - Dot(Gk[i], x)])
      tail == Tail(s)
  IN s[1] >= 0 /\ Dot(tail, tail) <= s[1] * s[1]

\* x satisfies the equality block, the inequality block and every cone block of p
FeasiblePoint(p, x) ==
  /\ \A i \in 1..Len(p.A) : Dot(p.A[i], x) = p.b[i]
  /\ \A i \in 1..Len(p.Gl) : Dot(p.Gl[i], x) <= p.hl[i]
  /\ \A k \in 1..Len(p.Gq) : InCone(p.Gq[k], p.hq[k], x)

\* the argument shapes cvxopt's socp accepts: every block has as many columns as c
\* has entries, and as many rows as its right-hand side
DimsOK(p) ==
  /\ Cols(p.Gl) = Len(p.c) /\ Rows(p.Gl) = Len(p.hl)
  /\ Cols(p.A) = Len(p.c) /\ Rows(p.A) = Len(p.b)
  /\ Len(p.Gq) = Len(p.hq)
  /\ \A k \in 1..Len(p.Gq) : Cols(p.Gq[k]) = Len(p.c) /\ Rows(p.Gq[k]) = Len(p.hq[k])

\* the feasible points of p among the candidates dom
Feasible(p, dom) == {y : y \in {x \in dom : FeasiblePoint(p, x)}}

\* the minimizers of c.x over the feasible candidates
Solutions(p, dom) ==
  LET F == Feasible(p, dom)
      vals == {Dot(p.c, x) : x \in F}
  IN IF F = {} THEN {}
     ELSE LET best == CHOOSE v \in vals : \A u \in vals : v <= u
          IN {x \in F : Dot(p.c, x) = best}

\* the vectors a solver may hold when it stops without converging
Iterates(n) == {Zeros(n)}

\* what cvxopt.solvers.socp may return for p: an optimal point with status
\* "optimal"; None with "primal infeasible" when nothing is feasible; its last
\* iterate with "unknown" when it stops on its iteration limit or on a numerical
\* failure.  ("dual infeasible" needs an unbounded feasible set.)
socp(p, dom) ==
  LET sols == Solutions(p, dom)
  IN {[status |-> "optimal", x |-> x] : x \in sols}
     \cup (IF sols = {} THEN {[status |-> "primal infeasible", x |-> None]} ELSE {})
     \cup {[status |-> "unknown", x |-> x] : x \in Iterates(Len(p.c))}

\* ft.MeanVariance(means, cov, G, h).efficient_portfolio(r): the portfolios of
\* least variance among those with G w <= h, 1.w = 1 and expected return >= r
efficient_portfolio(mu, sigma, Gm, hv, r) ==
  LET n == Len(mu)
      F == {y : y \in {w \in WeightGrid(n) :
                         /\ Dot(Ones(n), w) = Wt(1, 1, n)
                         /\ \A i \in 1..Len(Gm) : Dot(Gm[i], w) <= hv[i]
                         /\ Dot(mu, w) >= r * Wt(1, 1, n)}}
      vals == {Quad(w, sigma) : w \in F}
  IN IF F = {} THEN {}
     ELSE LET best == CHOOSE v \in vals : \A u \in vals : v <= u
          IN {w \in F : Quad(w, sigma) = best}

(* --------------------- what the cells compute ------------------------- *)

\* cell 3: G = np.vstack((np.eye(I), -np.eye(I)))
LongOnlyBoundedG(n) == VStack(Eye(n), NegMat(Eye(n)))

\* cell 3: h = np.hstack((0.25 * np.ones(I), np.zeros(I)))
LongOnlyBoundedH(n) == HStackVec(ScaleVec(Ones(n), Wt(1, QuarterDen, n)), Zeros(n))

\* cell 5: risk_target = np.sqrt(e_star.T @ cov @ e_star)[0, 0]
RiskTarget(e, sigma) == RSqrt(Quad(e, sigma))

\* cell 5: A = matrix(np.ones((1, I)))
BudgetA(n) == << Ones(n) >>

\* cell 5: b = matrix(np.array([1.]))
BudgetB(n) == << Wt(1, 1, n) >>

\* the factor of scalar * cov in place of scalar**2 * cov
CholeskyFactorLinear(s, sigma) == NegMat(cholesky(ScaleMat(sigma, s)))

\* cell 5: L = -cholesky(scalar**2 * cov)
CholeskyFactor(s, sigma) == NegMat(cholesky(ScaleMat(sigma, s * s)))

\* cell 5: Gq = [matrix(np.zeros((I + 1, I)))]; Gq[0][1:, 0:] = L
RiskGq(n, Lm) == << SetBlock(ZerosMat(n + 1, n), 1, 0, Lm) >>

\* the radius left unscaled: hq[0][0] = risk_target
RiskHqUnscaled(n, rt, s) == << SetFirst(Zeros(n + 1), rt) >>

\* cell 5: hq = [matrix(np.zeros(I + 1))]; hq[0][0] = risk_target * scalar
RiskHq(n, rt, s) == << SetFirst(Zeros(n + 1), rt * s) >>

\* cell 5: the arguments of socp(c=matrix(-means * scalar), Gl=matrix(G),
\* hl=matrix(h), Gq=Gq, hq=hq, A=A, b=b)
RiskProgram(mu, s, Gm, hv, Gqs, hqs, Am, bv) ==
  [c |-> ScaleVec(NegVec(mu), s), Gl |-> Gm, hl |-> hv,
   Gq |-> Gqs, hq |-> hqs, A |-> Am, b |-> bv]

\* cell 5 as a whole, for the scaling constant s
TargetRiskProgram(n, mu, sigma, Gm, hv, rt, s) ==
  RiskProgram(mu, s, Gm, hv, RiskGq(n, CholeskyFactor(s, sigma)),
              RiskHq(n, rt, s), BudgetA(n), BudgetB(n))

\* cell 5: np.array(socp(...)['x'])
TakeX(sol) == sol.x

\* cells 6 and 11: the numbers the validation prints for w against ref
ValidationReport(w, ref, sigma, mu) ==
  [diff |-> MaxAbs(SubVec(w, ref)), vol |-> RSqrt(Quad(w, sigma)), ret |-> Dot(mu, w)]

\* cell 11: the same numbers, and the tracking error against the benchmark bm
DualValidationReport(w, ref, bm, sigma, mu) ==
  [diff |-> MaxAbs(SubVec(w, ref)), vol |-> RSqrt(Quad(w, sigma)),
   te |-> RSqrt(Quad(SubVec(w, bm), sigma)), ret |-> Dot(mu, w)]

\* cell 7: e_bm = np.ones((I, 1)) / I
Benchmark(n) == ScaleVec(Ones(n), Wt(1, n, n))

\* cell 7: te_target = np.sqrt(te_pf.T @ cov @ te_pf)[0, 0]
TrackingErrorTarget(te, sigma) == RSqrt(Quad(te, sigma))

\* the relation with the sign of t flipped: np.hstack((np.eye(I), np.eye(I)))
BenchmarkRelationSum(n) == HStack(Eye(n), Eye(n))

\* cell 8: benchmark_relation = np.hstack((np.eye(I), -np.eye(I)))
BenchmarkRelation(n) == HStack(Eye(n), NegMat(Eye(n)))

\* cell 8: A = matrix(np.vstack((np.hstack((np.ones(I), np.zeros(I))), benchmark_relation)))
TrackingA(n, rel) == VStack(<< HStackVec(Ones(n), Zeros(n)) >>, rel)

\* cell 8: b = matrix(np.vstack(([[1.]], e_bm)))
TrackingB(n, bm) == << Wt(1, 1, n) >> \o bm

\* the zero columns put in front: np.hstack((np.zeros((G.shape[0], I)), G))
ExtendGFront(Gm, n) == HStack(ZerosMat(Rows(Gm), n), Gm)

\* cell 8: G = np.hstack((G, np.zeros((G.shape[0], I))))
ExtendG(Gm, n) == HStack(Gm, ZerosMat(Rows(Gm), n))

\* no copy at all: the same object under a second name
copyAlias(heap, ref) == [heap |-> heap, ref |-> ref]

\* copy.copy of the matrix object ref: a new object with the same entries
copy(heap, ref) == [heap |-> Append(heap, heap[ref]), ref |-> Len(heap) + 1]

\* cell 9: Gq_base, Gq2 = [copy(Gq_base), copy(Gq_base)] and the two slice
\* assignments, on a heap of matrix objects (object 1 is Gq_base)
ConeBlocks(n, Lm) ==
  LET h0 == << ZerosMat(n + 1, 2 * n) >>
      c1 == copy(h0, 1)
      c2 == copy(c1.heap, 1)
      h3 == [c2.heap EXCEPT ![c1.ref] = SetBlock(@, 1, 0, Lm)]
      h4 == [h3 EXCEPT ![c2.ref] = SetBlock(@, 1, n, Lm)]
  IN [Gq_base |-> h4[1], Gq2 |-> << h4[c1.ref], h4[c2.ref] >>]

\* cell 9: hq2 and its two radii
ConeRadii(n, rt, te, s) ==
  << SetFirst(Zeros(n + 1), rt * s), SetFirst(Zeros(n + 1), te * s) >>

\* cell 10: means2 = np.hstack((means, np.zeros(I)))
ExtendMeans(mu, n) == HStackVec(mu, Zeros(n))

\* cell 10: the arguments of socp(c=matrix(-means2 * scalar), Gl=matrix(G),
\* hl=matrix(h), Gq=Gq2, hq=hq2, A=A, b=b)
DualProgram(mu2, s, Gm, hv, Gqs, hqs, Am, bv) ==
  [c |-> ScaleVec(NegVec(mu2), s), Gl |-> Gm, hl |-> hv,
   Gq |-> Gqs, hq |-> hqs, A |-> Am, b |-> bv]

\* cells 9 and 10 as a whole, for the scaling constant s, on cell 8's G, A and b
TrackingErrorProgram(n, mu, sigma, Gm, hv, Am, bv, rt, te, s) ==
  DualProgram(ExtendMeans(mu, n), s, Gm, hv,
              ConeBlocks(n, CholeskyFactor(s, sigma)).Gq2, ConeRadii(n, rt, te, s),
              Am, bv)

\* cell 10: np.array(socp(...)['x'][0:I])
TakeHead(sol, n) == Slice(sol.x, 0, n)

(* ------------------------- the kernel state --------------------------- *)

VARIABLES
  interactive,      \* FALSE: "Run All"; TRUE: the user executes the cells one by one
  bound,            \* the global names that are bound
  ran,              \* the cells executed so far
  last,             \* the cell executed last
  err,              \* the exception the last cell ended with, "" for none
  reruns,           \* executions of a cell that had run before
  I, means, cov,                                        \* cell 2
  G, h, return_target,                                  \* cell 3 (G also cell 8)
  e_star,                                               \* cell 4
  risk_target, A, b, Gq, hq, scalar, L,                 \* cell 5 (A, b also cell 8)
  call_risk,        \* the arguments of cell 5's socp call
  sol_risk,         \* what that call returned
  e_star_risk,
  report_risk,                                          \* cell 6
  e_bm, te_pf, te_target,                               \* cell 7
  benchmark_relation,                                   \* cell 8
  Gq_base, Gq2, hq2,                                    \* cell 9
  means2,                                               \* cell 10
  call_dual,        \* the arguments of cell 10's socp call
  sol_dual,         \* what that call returned
  e_star_dual_risk,
  report_dual                                           \* cell 11

kernel == << interactive, bound, ran, last, err, reruns >>
v2 == << I, means, cov >>
v3 == << h, return_target >>
v5 == << risk_target, Gq, hq, scalar, L, call_risk, sol_risk, e_star_risk >>
v7 == << e_bm, te_pf, te_target >>
v9 == << Gq_base, Gq2, hq2 >>
v10 == << means2, call_dual, sol_dual, e_star_dual_risk >>

vars == << kernel, v2, v3, G, e_star, A, b, v5, report_risk, v7,
           benchmark_relation, v9, v10, report_dual >>

NoCall == [c |-> << >>, Gl |-> << >>, hl |-> << >>, Gq |-> << >>, hq |-> << >>,
           A |-> << >>, b |-> << >>]

\* no call made yet
NoSol == [status |-> "none", x |-> None]

\* the call raised instead of returning
Raised == [status |-> "raised", x |-> None]

NoReport == [diff |-> -1, vol |-> -1, ret |-> -1]

NoDualReport == [diff |-> -1, vol |-> -1, te |-> -1, ret |-> -1]

\* a fresh kernel: nothing is bound
Fresh ==
  /\ bound = {} /\ ran = {} /\ last = "" /\ err = "" /\ reruns = 0
  /\ I = 0 /\ means = << >> /\ cov = << >>
  /\ G = << >> /\ h = << >> /\ return_target = 0
  /\ e_star = << >>
  /\ risk_target = 0 /\ A = << >> /\ b = << >> /\ Gq = << >> /\ hq = << >>
  /\ scalar = 0 /\ L = << >>
  /\ call_risk = NoCall /\ sol_risk = NoSol /\ e_star_risk = << >>
  /\ report_risk = NoReport
  /\ e_bm = << >> /\ te_pf = << >> /\ te_target = 0
  /\ benchmark_relation = << >>
  /\ Gq_base = << >> /\ Gq2 = << >> /\ hq2 = << >>
  /\ means2 = << >> /\ call_dual = NoCall /\ sol_dual = NoSol
  /\ e_star_dual_risk = << >>
  /\ report_dual = NoDualReport

Init == Fresh /\ interactive = FALSE

InitInteractive == Fresh /\ interactive = TRUE

\* the code cells, in document order
CellOrder ==
  << "cell2", "cell3", "cell4", "cell5", "cell6", "cell7", "cell8", "cell9",
     "cell10", "cell11" >>

\* the cells above cell in the document
Before(cell) == {CellOrder[k] : k \in {j \in 1..Len(CellOrder) : \A i \in 1..j : CellOrder[i] # cell}}

\* A cell can be executed when the names it reads are bound (otherwise it ends
\* in a NameError and binds nothing).  "Run All" executes every cell once, in
\* document order, and stops at the first exception; a user executes any cell,
\* and executes a cell again at most MaxReruns times.
CanRun(cell, reads) ==
  /\ reads \subseteq bound
  /\ IF interactive
     THEN cell \in ran => reruns < MaxReruns
     ELSE cell \notin ran /\ err = "" /\ Before(cell) \subseteq ran

\* the kernel's record of one execution of cell, which ended with exception e
\* ("" for none) after binding the names binds
Exec(cell, e, binds) ==
  /\ UNCHANGED interactive
  /\ last' = cell
  /\ err' = e
  /\ ran' = ran \cup {cell}
  /\ reruns' = IF cell \in ran THEN reruns + 1 ELSE reruns
  /\ bound' = bound \cup binds

(* ------------------------------ the cells ----------------------------- *)

\* cell 2: names, means, cov = ft.load_parameters(); I = len(names).  The loader
\* returns the same data every time, so executing the cell again changes nothing.
Cell2 ==
  /\ "cell2" \notin ran
  /\ CanRun("cell2", {})
  /\ \E n \in AssetCounts : \E mu \in MeanVectors(n) : \E sigma \in Covariances(n) :
       I' = n /\ means' = mu /\ cov' = sigma
  /\ Exec("cell2", "", {"I", "means", "cov"})
  /\ UNCHANGED << v3, G, e_star, A, b, v5, report_risk, v7, benchmark_relation,
                  v9, v10, report_dual >>

\* cell 3: the long-only constraints with 25% upper bounds, and the return target
Cell3 ==
  /\ CanRun("cell3", {"I"})
  /\ G' = LongOnlyBoundedG(I)
  /\ h' = LongOnlyBoundedH(I)
  /\ return_target' = ReturnTarget
  /\ Exec("cell3", "", {"G", "h", "return_target"})
  /\ UNCHANGED << v2, e_star, A, b, v5, report_risk, v7, benchmark_relation,
                  v9, v10, report_dual >>

\* cell 4: the base case with an expected return target
Cell4 ==
  /\ CanRun("cell4", {"means", "cov", "G", "h", "return_target"})
  /\ IF Cols(G) # Len(means)
     THEN Exec("cell4", "TypeError", {}) /\ UNCHANGED e_star
     ELSE LET sols == efficient_portfolio(means, cov, G, h, return_target)
          IN IF sols = {}
             THEN Exec("cell4", "InfeasibleProblem", {}) /\ UNCHANGED e_star
             ELSE /\ \E e \in sols : e_star' = e
                  /\ Exec("cell4", "", {"e_star"})
  /\ UNCHANGED << v2, v3, G, A, b, v5, report_risk, v7, benchmark_relation,
                  v9, v10, report_dual >>

\* cell 5: the target-risk program and its solve
Cell5 ==
  /\ CanRun("cell5", {"e_star", "cov", "I", "means", "G", "h"})
  /\ LET rt == RiskTarget(e_star, cov)
         p == TargetRiskProgram(I, means, cov, G, h, rt, ScalarValue)
         binds == {"risk_target", "A", "b", "Gq", "hq", "scalar", "L"}
     IN /\ risk_target' = rt
        /\ A' = p.A /\ b' = p.b /\ Gq' = p.Gq /\ hq' = p.hq
        /\ scalar' = ScalarValue
        /\ L' = CholeskyFactor(ScalarValue, cov)
        /\ call_risk' = p
        /\ IF DimsOK(p)
           THEN \E sol \in socp(p, WeightGrid(I)) :
                  /\ sol_risk' = sol
                  /\ e_star_risk' = TakeX(sol)
                  /\ Exec("cell5", "", binds \cup {"e_star_risk"})
           ELSE /\ sol_risk' = Raised
                /\ UNCHANGED e_star_risk
                /\ Exec("cell5", "TypeError", binds)
  /\ UNCHANGED << v2, v3, G, e_star, report_risk, v7, benchmark_relation,
                  v9, v10, report_dual >>

\* cell 6: the validation of the target-risk result
Cell6 ==
  /\ CanRun("cell6", {"e_star_risk", "e_star", "cov", "risk_target", "means"})
  /\ IF e_star_risk = None
     THEN Exec("cell6", "TypeError", {}) /\ UNCHANGED report_risk
     ELSE /\ report_risk' = ValidationReport(e_star_risk, e_star, cov, means)
          /\ Exec("cell6", "", {})
  /\ UNCHANGED << v2, v3, G, e_star, A, b, v5, v7, benchmark_relation,
                  v9, v10, report_dual >>

\* cell 7: the benchmark and the tracking-error target
Cell7 ==
  /\ CanRun("cell7", {"I", "e_star_risk", "cov"})
  /\ e_bm' = Benchmark(I)
  /\ IF e_star_risk = None
     THEN Exec("cell7", "TypeError", {"e_bm"}) /\ UNCHANGED << te_pf, te_target >>
     ELSE /\ te_pf' = SubVec(e_star_risk, Benchmark(I))
          /\ te_target' = TrackingErrorTarget(SubVec(e_star_risk, Benchmark(I)), cov)
          /\ Exec("cell7", "", {"e_bm", "te_pf", "te_target"})
  /\ UNCHANGED << v2, v3, G, e_star, A, b, v5, report_risk, benchmark_relation,
                  v9, v10, report_dual >>

\* cell 8: the benchmark relation and the auxiliary variables
Cell8 ==
  /\ CanRun("cell8", {"I", "e_bm", "G"})
  /\ benchmark_relation' = BenchmarkRelation(I)
  /\ A' = TrackingA(I, BenchmarkRelation(I))
  /\ b' = TrackingB(I, e_bm)
  /\ G' = ExtendG(G, I)
  /\ Exec("cell8", "", {"benchmark_relation", "A", "b", "G"})
  /\ UNCHANGED << v2, v3, e_star, v5, report_risk, v7, v9, v10, report_dual >>

\* cell 9: the two second-order cone constraints
Cell9 ==
  /\ CanRun("cell9", {"I", "L", "risk_target", "scalar", "te_target"})
  /\ Gq_base' = ConeBlocks(I, L).Gq_base
  /\ Gq2' = ConeBlocks(I, L).Gq2
  /\ hq2' = ConeRadii(I, risk_target, te_target, scalar)
  /\ Exec("cell9", "", {"Gq_base", "Gq2", "hq2"})
  /\ UNCHANGED << v2, v3, G, e_star, A, b, v5, report_risk, v7,
                  benchmark_relation, v10, report_dual >>

\* cell 10: the extended expected returns and the tracking-error solve
Cell10 ==
  /\ CanRun("cell10", {"means", "I", "scalar", "G", "h", "Gq2", "hq2", "A", "b"})
  /\ LET p == DualProgram(ExtendMeans(means, I), scalar, G, h, Gq2, hq2, A, b)
     IN /\ means2' = ExtendMeans(means, I)
        /\ call_dual' = p
        /\ IF DimsOK(p)
           THEN \E sol \in socp(p, PairGrid(I)) :
                  /\ sol_dual' = sol
                  /\ IF sol.x = None
                     THEN /\ UNCHANGED e_star_dual_risk
                          /\ Exec("cell10", "TypeError", {"means2"})
                     ELSE /\ e_star_dual_risk' = TakeHead(sol, I)
                          /\ Exec("cell10", "", {"means2", "e_star_dual_risk"})
           ELSE /\ sol_dual' = Raised
                /\ UNCHANGED e_star_dual_risk
                /\ Exec("cell10", "TypeError", {"means2"})
  /\ UNCHANGED << v2, v3, G, e_star, A, b, v5, report_risk, v7,
                  benchmark_relation, v9, report_dual >>

\* cell 11: the validation of the tracking-error result
Cell11 ==
  /\ CanRun("cell11", {"e_star_dual_risk", "e_bm", "e_star_risk", "cov",
                       "risk_target", "te_target", "means"})
  /\ IF e_star_risk = None
     THEN Exec("cell11", "TypeError", {}) /\ UNCHANGED report_dual
     ELSE /\ report_dual' =
               DualValidationReport(e_star_dual_risk, e_star_risk, e_bm, cov, means)
          /\ Exec("cell11", "", {})
  /\ UNCHANGED << v2, v3, G, e_star, A, b, v5, report_risk, v7,
                  benchmark_relation, v9, v10 >>

Next ==
  \/ Cell2 \/ Cell3 \/ Cell4 \/ Cell5 \/ Cell6 \/ Cell7
  \/ Cell8 \/ Cell9 \/ Cell10 \/ Cell11

\* "Run All"
Spec == Init /\ [][Next]_vars

\* the cells executed one by one
SpecInteractive == InitInteractive /\ [][Next]_vars

(* ------------------------------ the claims ---------------------------- *)

\* the scaling constants compared with scalar = 1
ScalarsTried == (2..MaxScalar) \cup {ScalarValue}

\* C3: whenever cvxopt's socp returns a status other than "optimal", cell 5 and
\* cell 10 end in an exception and bind no weights, and no validation cell
\* completes on the outcome of such a call.
C3_NonOptimalIsHardFailure ==
  /\ (last = "cell5" /\ sol_risk.status \in {"primal infeasible", "unknown"})
        => (err # "" /\ "e_star_risk" \notin bound)
  /\ (last = "cell10" /\ sol_dual.status \in {"primal infeasible", "unknown"})
        => (err # "" /\ "e_star_dual_risk" \notin bound)
  /\ (last = "cell6" /\ err = "") => sol_risk.status = "optimal"
  /\ (last = "cell11" /\ err = "") => sol_dual.status = "optimal"

C5_ScalarLeavesPortfolio ==
  /\ (last = "cell5" /\ err = "") =>
       LET p1 == TargetRiskProgram(I, means, cov, G, h, risk_target, 1)
           F1 == Feasible(p1, WeightGrid(I))
       IN /\ call_risk = TargetRiskProgram(I, means, cov, G, h, risk_target, scalar)
          /\ scalar \in ScalarsTried
          /\ sol_risk.x # None =>
               Len(e_star_risk) = I /\ \A i \in 1..I : e_star_risk[i] = sol_risk.x[i]
          /\ sol_risk.status = "optimal" => e_star_risk \in Solutions(p1, F1)
          /\ \A s \in ScalarsTried :
               LET ps == TargetRiskProgram(I, means, cov, G, h, risk_target, s)
               IN /\ ps.c = ScaleVec(p1.c, s)
                  /\ ps.Gq = << ScaleMat(p1.Gq[1], s) >>
                  /\ ps.hq = << ScaleVec(p1.hq[1], s) >>
                  /\ ps.Gl = p1.Gl /\ ps.hl = p1.hl /\ ps.A = p1.A /\ ps.b = p1.b
                  /\ Feasible(ps, WeightGrid(I)) = F1
                  /\ Solutions(ps, F1) = Solutions(p1, F1)
  /\ (last = "cell10" /\ sol_dual.status # "raised") =>
       LET p1 == TrackingErrorProgram(I, means, cov, G, h, A, b, risk_target, te_target, 1)
           F1 == Feasible(p1, PairGrid(I))
       IN /\ call_dual = TrackingErrorProgram(I, means, cov, G, h, A, b,
                                              risk_target, te_target, scalar)
          /\ scalar \in ScalarsTried
          /\ sol_dual.x # None =>
               Len(e_star_dual_risk) = I
               /\ \A i \in 1..I : e_star_dual_risk[i] = sol_dual.x[i]
          /\ sol_dual.status = "optimal" => sol_dual.x \in Solutions(p1, F1)
          /\ \A s \in ScalarsTried :
               LET ps == TrackingErrorProgram(I, means, cov, G, h, A, b,
                                              risk_target, te_target, s)
               IN /\ ps.c = ScaleVec(p1.c, s)
                  /\ ps.Gq = << ScaleMat(p1.Gq[1], s), ScaleMat(p1.Gq[2], s) >>
                  /\ ps.hq = << ScaleVec(p1.hq[1], s), ScaleVec(p1.hq[2], s) >>
                  /\ ps.Gl = p1.Gl /\ ps.hl = p1.hl /\ ps.A = p1.A /\ ps.b = p1.b
                  /\ Feasible(ps, PairGrid(I)) = F1
                  /\ Solutions(ps, F1) = Solutions(p1, F1)

\* C5 witness: both solves returned an optimal point with the notebook's scalar,
\* and some candidate is infeasible for the target-risk program.
C5_Witness ==
  /\ last = "cell10" /\ err = ""
  /\ sol_risk.status = "optimal" /\ sol_dual.status = "optimal"
  /\ scalar = ScalarValue
  /\ e_star_dual_risk # Zeros(I)
  /\ Feasible(call_risk, WeightGrid(I)) # WeightGrid(I)

\* C6: a target-risk solve executed after the tracking-error setup of cell 8
\* receives the program data it receives before it (cell 3's G and h, the budget
\* row) and returns a result.
C6_TargetRiskSameAfterTrackingSetup ==
  (last = "cell5" /\ "cell8" \in ran) =>
     /\ sol_risk.status # "raised"
     /\ call_risk.Gl = LongOnlyBoundedG(I) /\ call_risk.hl = LongOnlyBoundedH(I)
     /\ call_risk.A = BudgetA(I) /\ call_risk.b = BudgetB(I)

\* C7: after cell 9 there are two cone blocks of I + 1 rows over [w; t]; the
\* first has L in rows 1..I of the w columns and zeros in the t columns, the
\* second has L in rows 1..I of the t columns and zeros in the w columns; row 0
\* of each is zero; the right-hand sides are risk_target * scalar and
\* te_target * scalar followed by zeros; Gq_base, the object both were copied
\* from, is still zero.
C7_TwoConeBlocks ==
  last = "cell9" =>
    /\ Len(Gq2) = 2 /\ Len(hq2) = 2
    /\ \A k \in 1..2 :
         /\ Rows(Gq2[k]) = I + 1 /\ Cols(Gq2[k]) = 2 * I /\ Len(hq2[k]) = I + 1
         /\ Gq2[k][1] = Zeros(2 * I)
         /\ \A i \in 2..(I + 1) : hq2[k][i] = 0
    /\ \A i \in 1..I : \A j \in 1..I :
         /\ Gq2[1][i + 1][j] = L[i][j] /\ Gq2[1][i + 1][I + j] = 0
         /\ Gq2[2][i + 1][I + j] = L[i][j] /\ Gq2[2][i + 1][j] = 0
    /\ MatMul(Transpose(L), L) = ScaleMat(cov, scalar * scalar)
    /\ hq2[1][1] = risk_target * scalar
    /\ hq2[2][1] = te_target * scalar
    /\ Gq_base = ZerosMat(I + 1, 2 * I)

\* C7 witness: cell 9 has built two different blocks from a factor with an
\* off-diagonal entry, with both radii positive.
C7_Witness ==
  /\ last = "cell9" /\ Gq2[1] # Gq2[2]
  /\ L[1][2] # 0
  /\ hq2[1][1] > 0 /\ hq2[2][1] > 0

\* C8: after cell 8 the equality block has I + 1 rows over [w; t]: row 0 is
\* [1..1, 0..0] with right-hand side 1, row i is [e_i, -e_i] with right-hand side
\* benchmark[i]; a point [w; t] satisfies it only if 1.w = 1 and t = w - e_bm,
\* and for such a point the second cone of cell 9 holds exactly when the
\* tracking error of w against e_bm is at most te_target.
C8_EqualityBlock ==
  /\ last = "cell8" =>
       /\ Rows(A) = I + 1 /\ Cols(A) = 2 * I /\ Len(b) = I + 1
       /\ A[1] = Ones(I) \o Zeros(I) /\ b[1] = Wt(1, 1, I)
       /\ \A i \in 1..I :
            /\ b[i + 1] = e_bm[i]
            /\ \A j \in 1..I :
                 /\ A[i + 1][j] = (IF i = j THEN 1 ELSE 0)
                 /\ A[i + 1][I + j] = (IF i = j THEN -1 ELSE 0)
       /\ \A x \in PairGrid(I) :
            (\A i \in 1..(I + 1) : Dot(A[i], x) = b[i])
              <=> (/\ Dot(Ones(I), Slice(x, 0, I)) = Wt(1, 1, I)
                   /\ Slice(x, I, 2 * I) = SubVec(Slice(x, 0, I), e_bm))
  /\ last = "cell9" =>
       \A x \in PairGrid(I) :
         (\A i \in 1..(I + 1) : Dot(A[i], x) = b[i])
           => (InCone(Gq2[2], hq2[2], x)
                 <=> Quad(SubVec(Slice(x, 0, I), e_bm), cov) <= te_target * te_target)

\* C8 witness: cell 9 has run on cell 8's equality block, which some candidates
\* satisfy inside the tracking-error cone and some satisfy outside it.
C8_Witness ==
  /\ last = "cell9"
  /\ \E x \in PairGrid(I) :
       (\A i \in 1..(I + 1) : Dot(A[i], x) = b[i]) /\ InCone(Gq2[2], hq2[2], x)
  /\ \E x \in PairGrid(I) :
       (\A i \in 1..(I + 1) : Dot(A[i], x) = b[i]) /\ ~InCone(Gq2[2], hq2[2], x)

\* C9: after cell 5 the risk cone block has I + 1 rows: row 0 of its map is
\* zero, its first right-hand side entry is risk_target * scalar > 0 and the
\* others are zero, rows 1..I are a triangular R with R^T R = scalar**2 * cov;
\* a w satisfies the block exactly when w^T cov w <= risk_target**2.
C9_RiskConeBlock ==
  last = "cell5" =>
    /\ Len(Gq) = 1 /\ Len(hq) = 1
    /\ Rows(Gq[1]) = I + 1 /\ Cols(Gq[1]) = I /\ Len(hq[1]) = I + 1
    /\ Gq[1][1] = Zeros(I)
    /\ hq[1][1] = risk_target * scalar /\ hq[1][1] > 0
    /\ \A i \in 2..(I + 1) : hq[1][i] = 0
    /\ LET R == Tail(Gq[1])
       IN /\ IsUpperTriangular(R)
          /\ R = L
          /\ MatMul(Transpose(R), R) = ScaleMat(cov, scalar * scalar)
    /\ \A w \in WeightGrid(I) :
         InCone(Gq[1], hq[1], w) <=> Quad(w, cov) <= risk_target * risk_target

\* C9 witness: cell 5 has built the block for a covariance with a correlation;
\* some budget portfolio lies in the cone and some lies outside it.
C9_Witness ==
  /\ last = "cell5" /\ cov[1][2] # 0
  /\ \E w \in WeightGrid(I) : Dot(Ones(I), w) = Wt(1, 1, I) /\ InCone(Gq[1], hq[1], w)
  /\ \E w \in WeightGrid(I) : Dot(Ones(I), w) = Wt(1, 1, I) /\ ~InCone(Gq[1], hq[1], w)

\* points [w; t] on and on either side of the bounds 0 and 0.25, with t zero or
\* far beyond them
BoundProbes(n) ==
  {Tup(w) \o t : w \in [1..n -> {-1, 0, Wt(1, QuarterDen, n), Wt(1, QuarterDen, n) + 1}],
                 t \in {Zeros(n), ScaleVec(Ones(n), Wt(1, 1, n))}}

\* C10: the objective passed to cell 10's solve is -means * scalar followed by
\* I zeros; its inequality block is cell 3's G with I zero columns appended,
\* rows in the same order, with cell 3's h; a point [w; t] satisfies the block
\* exactly when G w <= h.
C10_ExtendedObjectiveAndInequalities ==
  (last = "cell10" /\ sol_dual.status # "raised") =>
    /\ Len(call_dual.c) = 2 * I
    /\ \A i \in 1..I : call_dual.c[i] = -(means[i] * scalar) /\ call_dual.c[I + i] = 0
    /\ Rows(call_dual.Gl) = 2 * I /\ Cols(call_dual.Gl) = 2 * I
    /\ \A i \in 1..(2 * I) : \A j \in 1..I :
         /\ call_dual.Gl[i][j] = (IF i = j THEN 1 ELSE IF i = I + j THEN -1 ELSE 0)
         /\ call_dual.Gl[i][I + j] = 0
    /\ call_dual.hl = h
    /\ \A i \in 1..I : h[i] = Wt(1, QuarterDen, I) /\ h[I + i] = 0
    /\ \A x \in BoundProbes(I) :
         (\A i \in 1..(2 * I) : Dot(call_dual.Gl[i], x) <= call_dual.hl[i])
           <=> (\A i \in 1..I : 0 <= x[i] /\ x[i] <= Wt(1, QuarterDen, I))

\* C10 witness: cell 10 has solved the program, and some candidate violates the
\* inequality block.
C10_Witness ==
  /\ last = "cell10" /\ sol_dual.status = "optimal"
  /\ \E x \in BoundProbes(I) :
       \E i \in 1..(2 * I) : Dot(call_dual.Gl[i], x) > call_dual.hl[i]
  /\ \E x \in BoundProbes(I) :
       x[2 * I] # 0 /\ \A i \in 1..(2 * I) : Dot(call_dual.Gl[i], x) <= call_dual.hl[i]

====
